---- MODULE Spec2Model ----
(***************************************************************************)
(* A model of hamsci_grape1/grape1.py: the file inventory (DataInventory), *)
(* the Butterworth filter wrapper (Filter) and the per-station container   *)
(* (GrapeData) with its load -> resample -> derive -> filter pipeline.     *)
(*                                                                         *)
(* Representation.                                                         *)
(*  - A Python str that the code takes apart (strip, contains) is a        *)
(*    sequence of one-character strings.                                   *)
(*  - A file name is the tuple of its '_'-separated fields.                *)
(*  - A timestamp is an integer number of ticks, TicksPerSec ticks to the  *)
(*    second, so that sub-second components exist.                         *)
(*  - A numeric cell is an exact fraction [t |-> "num", n, d]; results of  *)
(*    the numpy/scipy numeric kernels (log10, filtfilt) are terms.         *)
(*  - A DataFrame is its set of column names with its sequence of rows.    *)
(*  - None is the empty tuple, a supplied optional value v is <<v>>.       *)
(***************************************************************************)
EXTENDS Integers, Sequences, FiniteSets, TLC

VARIABLES
    files,        \* the data directory: the set of file names glob returns
    disk,         \* the rows each file of the directory holds
    inv,          \* DataInventory object: <<>> or <<[df, logged_nodes]>>
    filt,         \* Filter object: <<>> or <<[fs, Wn, a, b]>>
    filt_out,     \* what Filter.filter_data last returned: <<>> or <<column>>
    butter_calls, \* number of calls of scipy.signal.butter so far
    data,         \* GrapeData.data: stage name -> <<>> or <<[df, label]>>
    meta,         \* GrapeData.meta: <<>> or <<[label, lat, lon]>>
    dft,          \* __load_raw's selection of inventory rows, in load order
    rs_times,     \* resample_data's list of target times
    req,          \* the arguments of the call in progress / last made
    pc,           \* position of the caller
    err,          \* the exception the last operation raised, "" if none
    ncalls        \* number of method calls made on the constructed object

vars == <<files, disk, inv, filt, filt_out, butter_calls, data, meta, dft, rs_times,
          req, pc, err, ncalls>>

None == <<>>
Some(v) == <<v>>

(***************************************************************************)
(* Bounds of the model.                                                    *)
(***************************************************************************)
MaxFiles == 3        \* files in the data directory
MaxInvFiles == 2     \* files in the directory of the inventory specification
MaxCalls == 1        \* method calls made after construction
MaxLen == 4          \* rows of a raw series in the resampling specification
MaxTime == 6         \* largest timestamp (ticks) in the resampling specification
MaxRate == 3         \* largest cadence (ticks)
MaxOrder == 2        \* largest filter order tried
TicksPerSec == 2     \* resolution of a timestamp: ticks per second

(***************************************************************************)
(* Python str operations used by DataInventory.                            *)
(***************************************************************************)
RECURSIVE LStrip(_, _)
LStrip(s, chars) ==
    IF s # <<>> /\ Head(s) \in chars THEN LStrip(Tail(s), chars) ELSE s

RECURSIVE RStrip(_, _)
RStrip(s, chars) ==
    IF s # <<>> /\ s[Len(s)] \in chars
    THEN RStrip(SubSeq(s, 1, Len(s) - 1), chars) ELSE s

\* str.strip(chars): drops leading and trailing characters that are in chars
StrStrip(s, chars) == RStrip(LStrip(s, chars), chars)

\* str.contains(sub)
StrContains(s, sub) ==
    \E i \in 1..(Len(s) - Len(sub) + 1) : SubSeq(s, i, i + Len(sub) - 1) = sub

Digits == {"0", "1", "2", "3", "4", "5", "6", "7", "8", "9"}

DigitVal(c) ==
    CASE c = "0" -> 0 [] c = "1" -> 1 [] c = "2" -> 2 [] c = "3" -> 3
      [] c = "4" -> 4 [] c = "5" -> 5 [] c = "6" -> 6 [] c = "7" -> 7
      [] c = "8" -> 8 [] c = "9" -> 9

IsInt(s) == s # <<>> /\ \A i \in 1..Len(s) : s[i] \in Digits

RECURSIVE StrToInt(_)
StrToInt(s) ==
    IF s = <<>> THEN 0
    ELSE 10 * StrToInt(SubSeq(s, 1, Len(s) - 1)) + DigitVal(s[Len(s)])

(***************************************************************************)
(* Cells of the inventory's Frequency column: a number or a str.           *)
(***************************************************************************)
NumCell(v) == [kind |-> "num", num |-> v, str |-> <<>>]
StrCell(s) == [kind |-> "str", num |-> 0, str |-> s]

suffix == <<".", "c", "s", "v">>
SuffixChars == {suffix[i] : i \in 1..Len(suffix)}

L_WWV5 == <<"W", "W", "V", "5">>
L_WWV10 == <<"W", "W", "V", "1", "0">>
L_WWV2p5 == <<"W", "W", "V", "2", "p", "5">>
L_WWV15 == <<"W", "W", "V", "1", "5">>
L_CHU3 == <<"C", "H", "U", "3">>
L_CHU7 == <<"C", "H", "U", "7">>
L_CHU14 == <<"C", "H", "U", "1", "4">>
L_Unknown == <<"U", "n", "k", "n", "o", "w", "n">>
L_G1 == <<"G", "1">>
L_WWV20 == <<"W", "W", "V", "2", "0">>
L_5000000 == <<"5", "0", "0", "0", "0", "0", "0">>

\* grape1.py lines 124-131: abbreviation -> Hz, applied in this order
FreqOfLabel(c) ==
    IF c.kind # "str" THEN c
    ELSE CASE c.str = L_WWV5 -> NumCell(5000000)
           [] c.str = L_WWV10 -> NumCell(10000000)
           [] c.str = L_WWV2p5 -> NumCell(2500000)
           [] c.str = L_WWV15 -> NumCell(15000000)
           [] c.str = L_CHU3 -> NumCell(3330000)
           [] c.str = L_CHU7 -> NumCell(7850000)
           [] c.str = L_CHU14 -> NumCell(14670000)
           [] c.str = L_Unknown -> NumCell(0)
           [] OTHER -> c

(***************************************************************************)
(* File names.  The Datetime token is the decimal number of its day.       *)
(***************************************************************************)
FName(day, node, grid, label) ==
    <<day, <<"N">> \o node, "G", grid, "FRQ", label \o suffix>>

\* pd.to_datetime of the Datetime token
ToDatetime(tok) == StrToInt(tok)

\* One row of the inventory: lines 107-121 applied to one file name
ParseRow(fn) ==
    [Datetime |-> ToDatetime(fn[1]),
     Node |-> StrToInt(StrStrip(fn[2], {"N"})),
     G |-> fn[3],
     GridSquare |-> fn[4],
     Frequency |-> StrCell(StrStrip(fn[6], SuffixChars)),
     Filename |-> fn]

\* df['Node'].astype(int) raises ValueError on a tag that is not an integer
NodeParses(fn) == IsInt(StrStrip(fn[2], {"N"}))

\* line 121: df = df[~df['Frequency'].str.contains('G1')]
KeepRow(r) == ~StrContains(r.Frequency.str, L_G1)

\* lines 124-131 on one row
NormalizeRow(r) == [r EXCEPT !.Frequency = FreqOfLabel(r.Frequency)]

\* DataInventory.__init__: the DataFrame (a set of rows; glob's order varies)
InventoryDf(fs) == {NormalizeRow(r) : r \in {p \in {ParseRow(fn) : fn \in fs} : KeepRow(p)}}

\* lines 137-140: the sorted list of distinct nodes, as a set
LoggedNodes(df) == {r.Node : r \in df}

\* what DataInventory(data_path) raises, "" if it succeeds (an empty listing
\* gives a frame without the six columns that lines 107-108 name)
InventoryError(fs) ==
    IF fs = {} THEN "ValueError: Length mismatch"
    ELSE IF \E fn \in fs : ~NodeParses(fn) THEN "ValueError: invalid literal for int()"
    ELSE ""

DataInventory(fs) == [df |-> InventoryDf(fs), logged_nodes |-> LoggedNodes(InventoryDf(fs))]

(***************************************************************************)
(* Numeric cells: exact fractions, and terms for the library kernels.      *)
(***************************************************************************)
Abs(x) == IF x < 0 THEN -x ELSE x

RECURSIVE Gcd(_, _)
Gcd(a, b) == IF b = 0 THEN a ELSE Gcd(b, a % b)

\* the fraction n/d in lowest terms with a positive denominator (d # 0)
Frac(n, d) ==
    LET g == Gcd(Abs(n), Abs(d))
        s == IF d < 0 THEN -1 ELSE 1
    IN [t |-> "num", n |-> (s * n) \div g, d |-> (s * d) \div g]

IsNum(c) == c.t = "num"
Inf == [t |-> "inf"]

FracSub(x, y) == Frac(x.n * y.d - y.n * x.d, x.d * y.d)
FracLess(x, y) == x.n * y.d < y.n * x.d

\* df_load['Freq'] - freq  (line 359)
SubtractFreq(c, freq) == FracSub(c, Frac(freq, 1))

\* 20*np.log10(v)  (line 315): an opaque numpy kernel
PowerDb(v) == [t |-> "20log10", x |-> v]

(***************************************************************************)
(* DataFrames: [cols |-> set of column names, rows |-> sequence of rows],  *)
(* a row being a function from the column names to cells.                  *)
(***************************************************************************)
Frame(cols, rows) == [cols |-> cols, rows |-> rows]
Column(df, c) == [i \in 1..Len(df.rows) |-> df.rows[i][c]]

RECURSIVE ConcatFrames(_)
ConcatFrames(fl) ==
    IF Len(fl) = 1 THEN fl[1]
    ELSE LET rest == ConcatFrames(Tail(fl))
         IN Frame(fl[1].cols \cup rest.cols, fl[1].rows \o rest.rows)

\* insert row r into the sequence rs, which is sorted by UTC
RECURSIVE InsertByUTC(_, _)
InsertByUTC(r, rs) ==
    IF rs = <<>> THEN <<r>>
    ELSE IF r["UTC"] < Head(rs)["UTC"] THEN <<r>> \o rs
    ELSE <<Head(rs)>> \o InsertByUTC(r, Tail(rs))

RECURSIVE SortRows(_)
SortRows(rs) ==
    IF rs = <<>> THEN <<>>
    ELSE InsertByUTC(rs[Len(rs)], SortRows(SubSeq(rs, 1, Len(rs) - 1)))

\* a variant of line 363 that leaves the concatenated rows in file order
SortValuesUTC_unsorted(df) == df

\* df.sort_values('UTC')
SortValuesUTC(df) == Frame(df.cols, SortRows(df.rows))

\* df[c] = col : adds or replaces a column
SetColumn(df, c, col) ==
    Frame(df.cols \cup {c},
          [i \in 1..Len(df.rows) |->
              [k \in df.cols \cup {c} |-> IF k = c THEN col[i] ELSE df.rows[i][k]]])

SeqMin(s) == CHOOSE x \in {s[i] : i \in 1..Len(s)} : \A j \in 1..Len(s) : x <= s[j]
SeqMax(s) == CHOOSE x \in {s[i] : i \in 1..Len(s)} : \A j \in 1..Len(s) : x >= s[j]

(***************************************************************************)
(* Resampling (GrapeData.resample_data, lines 393-442).                    *)
(***************************************************************************)
\* Timestamp.to_julian_date: days scaled to ticks; 2440587 days and a half
\* is the Julian date of the Unix epoch, kept here in units of half a day
\* (only differences of Julian dates enter the interpolation)
to_julian_date(t) == t + 4881175

\* datetime.datetime(year, month, day, hour, minute, second) of a timestamp:
\* its sub-second component is dropped  (lines 405-419)
TruncSec(t) == t - (t % TicksPerSec)

\* a variant of the loop of lines 421-423 that tests <= where the code tests <
RECURSIVE RsTimesFrom_le(_, _, _)
RsTimesFrom_le(acc, eT, rate) ==
    IF acc[Len(acc)] <= eT
    THEN RsTimesFrom_le(Append(acc, acc[Len(acc)] + rate), eT, rate)
    ELSE acc

\* lines 421-423: rs_times = [sTime]; while rs_times[-1] < eTime: append(+rate)
RECURSIVE RsTimesFrom(_, _, _)
RsTimesFrom(acc, eT, rate) ==
    IF acc[Len(acc)] < eT
    THEN RsTimesFrom(Append(acc, acc[Len(acc)] + rate), eT, rate)
    ELSE acc

RsTimes(df, rate) ==
    LET utc == Column(df, "UTC")
    IN RsTimesFrom(<<TruncSec(SeqMin(utc))>>, TruncSec(SeqMax(utc)), rate)

\* linear interpolation between two cells at weight wn/wd, 0 <= wn <= wd
Lerp(lo, hi, wn, wd) ==
    IF wn = 0 THEN lo
    ELSE IF wn = wd THEN hi
    ELSE IF IsNum(lo) /\ IsNum(hi)
         THEN Frac((lo.n * hi.d * (wd - wn)) + (hi.n * lo.d * wn), lo.d * hi.d * wd)
         ELSE [t |-> "lerp", lo |-> lo, hi |-> hi, w |-> Frac(wn, wd)]

\* scipy.interpolate.interp1d(x, y) with its defaults (kind='linear',
\* bounds_error: a target outside [x[1], x[n]] raises ValueError)
InterpInRange(x, xn) == x[1] <= xn /\ xn <= x[Len(x)]

\* the value at xn of the interpolant through (x[i], y[i]), x increasing
InterpAt(x, y, xn) ==
    IF Len(x) = 1 \/ xn = x[Len(x)] THEN y[Len(x)]
    ELSE LET i == CHOOSE k \in 1..(Len(x) - 1) : x[k] <= xn /\ xn < x[k + 1]
         IN Lerp(y[i], y[i + 1], xn - x[i], x[i + 1] - x[i])

\* lines 396-437: the resampled frame for a frame df sorted by UTC
ResampleFrame(df, rate) ==
    LET utc == Column(df, "UTC")
        jd == [i \in 1..Len(utc) |-> to_julian_date(utc[i])]
        rst == RsTimes(df, rate)
        rs_jd == [i \in 1..Len(rst) |-> to_julian_date(rst[i])]
    IN Frame(df.cols,
             [i \in 1..Len(rst) |->
                 [c \in df.cols |->
                     IF c = "UTC" THEN rst[i]
                     ELSE InterpAt(jd, Column(df, c), rs_jd[i])]])

\* what resample_data raises on df, "" if nothing
ResampleError(df, rate) ==
    LET utc == Column(df, "UTC")
        rst == RsTimes(df, rate)
    IN IF df.cols = {"UTC"} THEN ""
       ELSE IF \E i \in 1..Len(rst) :
                  ~InterpInRange([k \in 1..Len(utc) |-> to_julian_date(utc[k])],
                                 to_julian_date(rst[i]))
       THEN "ValueError: A value in x_new is outside the interpolation range"
       ELSE ""

\* line 441: the stage label carries resample_rate.total_seconds()
ResampleLabel(rate) == <<"Resampled Data (dt = {} s)", Frac(rate, TicksPerSec)>>

(***************************************************************************)
(* Filter (lines 221-254).                                                 *)
(***************************************************************************)
Reverse(s) == [i \in 1..Len(s) |-> s[Len(s) + 1 - i]]

\* line 233 on one element: 1./(Tc*60.), numpy giving inf for Tc = 0
WnOf(tc) == IF tc.n = 0 THEN Inf ELSE Frac(tc.d, 60 * tc.n)

\* lines 233-236: Tc_min is a sequence of one or two cutoff periods
FilterWn(Tc_min) ==
    LET w == [i \in 1..Len(Tc_min) |-> WnOf(Tc_min[i])]
    IN IF Len(w) = 2 THEN Reverse(w) ELSE w

\* 0 < 2*w/fs < 1 : the critical frequency lies strictly inside (0, fs/2)
WnInBand(w, fs) == IsNum(w) /\ w.n > 0 /\ 2 * w.n * fs.d < w.d * fs.n

\* scipy.signal.butter(N, Wn, btype, fs=fs) raises ValueError for a negative
\* order, a critical frequency outside (0, fs/2), a number of critical
\* frequencies that does not fit btype, or a band whose edges do not ascend
ButterRejects(N, Wn, btype, fs) ==
    \/ N < 0
    \/ \E i \in 1..Len(Wn) : ~WnInBand(Wn[i], fs)
    \/ btype \in {"low", "high"} /\ Len(Wn) # 1
    \/ btype \in {"bandpass", "bandstop"} /\ Len(Wn) # 2
    \/ Len(Wn) = 2 /\ ~FracLess(Wn[1], Wn[2])

\* the coefficients butter returns: a term naming the design
ButterCoef(which, N, Wn, btype, fs) ==
    [t |-> which, N |-> N, Wn |-> Wn, btype |-> btype, fs |-> fs]

\* Filter.__init__: the exception raised, "" if none
FilterInitError(N, Tc_min, btype, fs) ==
    IF ButterRejects(N, FilterWn(Tc_min), btype, fs)
    THEN "ValueError: scipy.signal.butter" ELSE ""

\* Filter.__init__: the object's fields (lines 243-246)
FilterObject(N, Tc_min, btype, fs) ==
    [fs |-> fs, Wn |-> FilterWn(Tc_min),
     a |-> ButterCoef("butter_a", N, FilterWn(Tc_min), btype, fs),
     b |-> ButterCoef("butter_b", N, FilterWn(Tc_min), btype, fs)]

\* Filter.filter_data: signal.filtfilt(b, a, data), an opaque scipy kernel
\* that returns a column as long as data
FilterApply(f, col) ==
    [i \in 1..Len(col) |-> [t |-> "filtfilt", b |-> f.b, a |-> f.a, x |-> col, i |-> i]]

(***************************************************************************)
(* The data directory, the files' contents, the node list.                 *)
(***************************************************************************)
Row(t, f, v) == [UTC |-> t, Freq |-> f, Vpk |-> v]
DataCols == {"UTC", "Freq", "Vpk"}

F_A == FName(<<"0">>, <<"1">>, "EN91", L_WWV5)
F_B == FName(<<"1">>, <<"1">>, "EN91", L_WWV5)
F_C == FName(<<"2">>, <<"1">>, "EN91", L_WWV5)
F_D == FName(<<"0">>, <<"2">>, "FN20", L_WWV5)
F_E == FName(<<"0">>, <<"1">>, "EN91", L_CHU3)
F_F == FName(<<"1">>, <<"1">>, "EN91", L_WWV20)

MainFiles == {F_A, F_B, F_C, F_D, F_E, F_F}

\* the rows of each of these files
FileRows(fn) ==
    CASE fn = F_A -> <<Row(4, Frac(5000001, 1), Frac(1, 1)),
                       Row(6, Frac(5000003, 1), Frac(2, 1))>>
      [] fn = F_B -> <<Row(3, Frac(4999999, 1), Frac(1, 2)),
                       Row(0, Frac(5000000, 1), Frac(4, 1))>>
      [] fn = F_C -> <<>>
      [] fn = F_D -> <<Row(8, Frac(5000002, 1), Frac(1, 1)),
                       Row(10, Frac(5000000, 1), Frac(3, 1))>>
      [] fn = F_E -> <<Row(1, Frac(3330001, 1), Frac(1, 1)),
                       Row(5, Frac(3330000, 1), Frac(0, 1))>>
      [] OTHER -> <<Row(2, Frac(20000000, 1), Frac(1, 1))>>

\* pd.read_csv(fpath, comment='#', parse_dates=[0])
ReadCsv(fn) == Frame(DataCols, disk[fn])

\* GrapeNodes.nodes_df of the node list: Node_Number -> row
NodesDf == [n \in {1} |-> [Callsign |-> "AD8Y", Latitude |-> 41, Longitude |-> -81]]

(***************************************************************************)
(* GrapeData.__load_raw (lines 320-391).                                   *)
(***************************************************************************)
SetMin(S) == CHOOSE x \in S : \A y \in S : x <= y
SetMax(S) == CHOOSE x \in S : \A y \in S : x >= y

\* lines 329-335: rows of the inventory with the frequency and the node
MatchRows(df, node, freq) ==
    {r \in {q \in df : q.Frequency = NumCell(freq)} : r.Node = node}

\* lines 337-341: the exception of min()/max() on an empty selection
RangeError(m, sTime, eTime) ==
    IF sTime = None /\ m = {} THEN "ValueError: min() arg is an empty sequence"
    ELSE IF eTime = None /\ m = {} THEN "ValueError: max() arg is an empty sequence"
    ELSE ""

RangeStart(m, sTime) == IF sTime = None THEN SetMin({r.Datetime : r \in m}) ELSE sTime[1]
RangeEnd(m, eTime) == IF eTime = None THEN SetMax({r.Datetime : r \in m}) ELSE eTime[1]

\* line 344: Datetime >= sTime and Datetime < eTime
InRange(r, s, e) == r.Datetime >= s /\ r.Datetime < e

SelectRows(m, sTime, eTime) ==
    {r \in m : InRange(r, RangeStart(m, sTime), RangeEnd(m, eTime))}

\* line 346: dft.sort_values('Datetime'), as a sequence
RECURSIVE SortByDatetime(_)
SortByDatetime(S) ==
    IF S = {} THEN <<>>
    ELSE LET r == CHOOSE x \in S : \A y \in S : x.Datetime <= y.Datetime
         IN <<r>> \o SortByDatetime(S \ {r})

\* lines 355-360 for one file: the frame appended to df_raw
LoadFile(fn, freq) ==
    LET df == ReadCsv(fn)
    IN Frame(df.cols,
             [i \in 1..Len(df.rows) |->
                 [df.rows[i] EXCEPT !["Freq"] = SubtractFreq(df.rows[i]["Freq"], freq)]])

\* lines 349-360: the list df_raw, files without rows skipped
RECURSIVE LoadFrames(_, _)
LoadFrames(sel, freq) ==
    IF sel = <<>> THEN <<>>
    ELSE IF Len(ReadCsv(Head(sel).Filename).rows) = 0
         THEN LoadFrames(Tail(sel), freq)
         ELSE <<LoadFile(Head(sel).Filename, freq)>> \o LoadFrames(Tail(sel), freq)

\* lines 362-363: concat and sort
RawFrame(frames) == SortValuesUTC(ConcatFrames(frames))

\* lines 366-369: the call sign put in the label
LabelCallSign(call_sign, grape_nodes, node) ==
    IF call_sign = None /\ grape_nodes # None
    THEN grape_nodes[1][node].Callsign
    ELSE ""

\* '{:0.1f}'.format(freq/1e6): tenths of a MHz, rounded
MHzTenths(freq) == (freq + 50000) \div 100000

\* line 371
MakeLabel(freq, node, cs) == <<MHzTenths(freq), node, cs>>

\* lines 374-378
MetaCoord(given, grape_nodes, node, field) ==
    IF given = None /\ grape_nodes # None
    THEN Some(grape_nodes[1][node][field])
    ELSE given

\* nodes_df.loc[node, ...] raises KeyError for a node the list does not hold
RegistryError(call_sign, lat, lon, grape_nodes, node) ==
    IF grape_nodes # None /\ (call_sign = None \/ lat = None \/ lon = None)
       /\ node \notin DOMAIN grape_nodes[1]
    THEN "KeyError: node" ELSE ""

(***************************************************************************)
(* State changes of a GrapeData object.                                    *)
(***************************************************************************)
Stages == {"raw", "resampled", "filtered"}
NoData == [s \in Stages |-> None]
Stage(df, label) == Some([df |-> df, label |-> label])
DefaultParams == <<"Freq", "Vpk", "Power_dB">>
DefaultTc == Frac(33333, 10000)

\* __load_raw with inventory=None on the directory fs
LoadRaw(fs, node, freq, sTime, eTime, lat, lon, call_sign, grape_nodes) ==
    LET m == MatchRows(InventoryDf(fs), node, freq)
        sel == SortByDatetime(SelectRows(m, sTime, eTime))
        frames == LoadFrames(sel, freq)
    IN IF InventoryError(fs) # ""
       THEN /\ err' = InventoryError(fs)
            /\ UNCHANGED <<inv, dft, data, meta>>
       ELSE /\ inv' = Some(DataInventory(fs))
            /\ IF RangeError(m, sTime, eTime) # ""
               THEN /\ err' = RangeError(m, sTime, eTime)
                    /\ UNCHANGED <<dft, data, meta>>
               ELSE /\ dft' = sel
                    /\ IF frames = <<>>
                       THEN /\ err' = "ValueError: No objects to concatenate"
                            /\ UNCHANGED <<data, meta>>
                       ELSE IF RegistryError(call_sign, lat, lon, grape_nodes, node) # ""
                       THEN /\ err' = RegistryError(call_sign, lat, lon, grape_nodes, node)
                            /\ UNCHANGED <<data, meta>>
                       ELSE /\ err' = ""
                            /\ data' = [NoData EXCEPT
                                   !["raw"] = Stage(RawFrame(frames), <<"Raw Data">>)]
                            /\ meta' = Some(
                                   [label |-> MakeLabel(freq, node,
                                                 LabelCallSign(call_sign, grape_nodes, node)),
                                    lat |-> MetaCoord(lat, grape_nodes, node, "Latitude"),
                                    lon |-> MetaCoord(lon, grape_nodes, node, "Longitude")])

\* resample_data(resample_rate, data_set_in, data_set_out)
ResampleData(rate, in, out) ==
    IF data[in] = None
    THEN /\ err' = "KeyError: data_set_in"
         /\ UNCHANGED <<data, rs_times>>
    ELSE LET df == data[in][1].df
         IN /\ rs_times' = RsTimes(df, rate)
            /\ IF ResampleError(df, rate) # ""
               THEN /\ err' = ResampleError(df, rate)
                    /\ UNCHANGED data
               ELSE /\ err' = ""
                    /\ data' = [data EXCEPT
                           ![out] = Stage(ResampleFrame(df, rate), ResampleLabel(rate))]

\* line 315: the Power_dB column is written into the stored 'resampled' frame
DerivePower ==
    LET st == data["resampled"][1]
    IN data' = [data EXCEPT !["resampled"] =
                   Stage(SetColumn(st.df, "Power_dB",
                                   [i \in 1..Len(st.df.rows) |-> PowerDb(st.df.rows[i]["Vpk"])]),
                         st.label)]

\* line 449: fs = 1/(np.unique(np.diff(df['UTC']))[0]*1e-9), in Hz
SamplingRate(df) ==
    LET utc == Column(df, "UTC")
    IN Frac(TicksPerSec, SetMin({utc[i + 1] - utc[i] : i \in 1..(Len(utc) - 1)}))

\* lines 452-453: for param in params: df[param] = filt.filter_data(df[param])
RECURSIVE FilterColumns(_, _, _)
FilterColumns(df, f, params) ==
    IF params = <<>> THEN df
    ELSE FilterColumns(SetColumn(df, Head(params), FilterApply(f, Column(df, Head(params)))),
                       f, Tail(params))

\* line 457
FilterLabel(N, Tc_min, btype) == <<"Butterworth Filtered Data", N, Tc_min, btype>>

\* the frame filter_data reads (line 448)
FilterSource(in) == "resampled"

\* filter_data(N, Tc_min, btype, data_set_in, data_set_out, params)
FilterData(N, Tc_min, btype, in, out, params) ==
    IF data[FilterSource(in)] = None
    THEN /\ err' = "KeyError: resampled"
         /\ UNCHANGED <<data, filt, filt_out, butter_calls>>
    ELSE LET df == data[FilterSource(in)][1].df
         IN IF Len(df.rows) < 2
            THEN /\ err' = "IndexError: index 0 is out of bounds"
                 /\ UNCHANGED <<data, filt, filt_out, butter_calls>>
            ELSE LET fs == SamplingRate(df)
                     f == FilterObject(N, Tc_min, btype, fs)
                 IN /\ butter_calls' = butter_calls + 1
                    /\ IF FilterInitError(N, Tc_min, btype, fs) # ""
                       THEN /\ err' = FilterInitError(N, Tc_min, btype, fs)
                            /\ UNCHANGED <<data, filt, filt_out>>
                       ELSE /\ filt' = Some(f)
                            /\ IF \E k \in 1..Len(params) : params[k] \notin df.cols
                               THEN /\ err' = "KeyError: param"
                                    /\ UNCHANGED <<data, filt_out>>
                               ELSE /\ err' = ""
                                    /\ filt_out' = Some(FilterApply(f,
                                           Column(df, params[Len(params)])))
                                    /\ data' = [data EXCEPT ![out] =
                                           Stage(FilterColumns(df, f, params),
                                                 FilterLabel(N, Tc_min, btype))]

(***************************************************************************)
(* Arguments the callers of the model supply.                              *)
(***************************************************************************)
Nodes == {1, 2}
Freqs == {5000000, 3330000}
Days == {0, 1, 2}
OptDay == {None} \cup {Some(d) : d \in Days}
OptCallSign == {None, Some("W2NAF")}
OptLat == {None, Some(40)}
OptLon == {None, Some(-75)}
OptNodes == {None, Some(NodesDf)}
Rates == 1..MaxRate
Orders == {0, MaxOrder}
Cutoffs == {<<Frac(0, 1)>>, <<DefaultTc>>}
ParamLists == {DefaultParams, <<"Freq">>}

(***************************************************************************)
(* GrapeData(node, freq, ...): the constructor, one action per step of     *)
(* __init__ (lines 306-318).  An argument is drawn when its step reads it. *)
(***************************************************************************)
Construct_LoadRaw ==
    /\ pc = "new"
    /\ \E node \in Nodes, freq \in Freqs, sTime \in OptDay, eTime \in OptDay,
          lat \in OptLat, lon \in OptLon, cs \in OptCallSign, gn \in OptNodes :
          /\ req' = [op |-> "load", node |-> node, freq |-> freq, sTime |-> sTime,
                     eTime |-> eTime, lat |-> lat, lon |-> lon, call_sign |-> cs,
                     grape_nodes |-> gn]
          /\ LoadRaw(files, node, freq, sTime, eTime, lat, lon, cs, gn)
    /\ pc' = IF err' = "" THEN "loaded" ELSE "failed"
    /\ UNCHANGED <<files, disk, filt, filt_out, butter_calls, rs_times, ncalls>>

Construct_Resample ==
    /\ pc = "loaded"
    /\ \E rate \in Rates :
          /\ req' = [op |-> "resample", rate |-> rate, in |-> "raw", out |-> "resampled"]
          /\ ResampleData(rate, "raw", "resampled")
    /\ pc' = IF err' = "" THEN "resampled" ELSE "failed"
    /\ UNCHANGED <<files, disk, inv, filt, filt_out, butter_calls, meta, dft, ncalls>>

Construct_Power ==
    /\ pc = "resampled"
    /\ DerivePower
    /\ req' = [op |-> "power"]
    /\ pc' = "derived"
    /\ UNCHANGED <<files, disk, inv, filt, filt_out, butter_calls, meta, dft, rs_times,
                   err, ncalls>>

Construct_Filter ==
    /\ pc = "derived"
    /\ \E N \in Orders, Tc \in Cutoffs :
          /\ req' = [op |-> "filter", N |-> N, Tc_min |-> Tc, btype |-> "low",
                     in |-> "resampled", out |-> "filtered", params |-> DefaultParams]
          /\ FilterData(N, Tc, "low", "resampled", "filtered", DefaultParams)
    /\ pc' = IF err' = "" THEN "ready" ELSE "failed"
    /\ UNCHANGED <<files, disk, inv, meta, dft, rs_times, ncalls>>

(***************************************************************************)
(* Method calls on a constructed object.                                   *)
(***************************************************************************)
Call_resample_data ==
    /\ pc = "ready"
    /\ ncalls < MaxCalls
    /\ \E rate \in Rates, in \in Stages, out \in Stages :
          /\ req' = [op |-> "resample", rate |-> rate, in |-> in, out |-> out]
          /\ ResampleData(rate, in, out)
    /\ ncalls' = ncalls + 1
    /\ UNCHANGED <<files, disk, inv, filt, filt_out, butter_calls, meta, dft, pc>>

Call_filter_data ==
    /\ pc = "ready"
    /\ ncalls < MaxCalls
    /\ \E N \in Orders, Tc \in Cutoffs, in \in Stages, out \in Stages,
          params \in ParamLists :
          /\ req' = [op |-> "filter", N |-> N, Tc_min |-> Tc, btype |-> "low",
                     in |-> in, out |-> out, params |-> params]
          /\ FilterData(N, Tc, "low", in, out, params)
    /\ ncalls' = ncalls + 1
    /\ UNCHANGED <<files, disk, inv, meta, dft, rs_times, pc>>

Directories(U, n) == {d \in SUBSET U : Cardinality(d) <= n}

Blank ==
    /\ inv = None
    /\ filt = None
    /\ filt_out = None
    /\ butter_calls = 0
    /\ data = NoData
    /\ meta = None
    /\ dft = <<>>
    /\ rs_times = <<>>
    /\ req = [op |-> "none"]
    /\ err = ""
    /\ ncalls = 0

Init ==
    /\ files \in Directories(MainFiles, MaxFiles)
    /\ disk = [fn \in files |-> FileRows(fn)]
    /\ pc = "new"
    /\ Blank

Next ==
    \/ Construct_LoadRaw
    \/ Construct_Resample
    \/ Construct_Power
    \/ Construct_Filter
    \/ Call_resample_data
    \/ Call_filter_data

Spec == Init /\ [][Next]_vars

(***************************************************************************)
(* SpecLoad: the loading step alone, on every directory of the model.      *)
(***************************************************************************)
SpecLoad == Init /\ [][Construct_LoadRaw]_vars

(***************************************************************************)
(* SpecResample: the resampling step of the constructor on an object that  *)
(* has loaded one file holding any rows with increasing timestamps.        *)
(***************************************************************************)
\* increasing timestamp sequences of at most n entries within 0..tmax
TimeSeqs(n, tmax) ==
    UNION {{g \in [1..k -> 0..tmax] : \A i \in 1..(k - 1) : g[i] < g[i + 1]} :
           k \in 1..n}

RawFreqs == {Frac(5000000, 1), Frac(5000003, 1)}

InitResample ==
    /\ files = {F_A}
    /\ \E ts \in TimeSeqs(MaxLen, MaxTime) :
          \E fv \in [1..Len(ts) -> RawFreqs] :
             disk = [fn \in files |->
                        [i \in 1..Len(ts) |-> Row(ts[i], fv[i], Frac(i, 1))]]
    /\ inv = Some(DataInventory(files))
    /\ dft = SortByDatetime(SelectRows(MatchRows(InventoryDf(files), 1, 5000000),
                                       None, Some(1)))
    /\ data = [NoData EXCEPT
                  !["raw"] = Stage(RawFrame(LoadFrames(dft, 5000000)), <<"Raw Data">>)]
    /\ meta = Some([label |-> MakeLabel(5000000, 1, ""), lat |-> None, lon |-> None])
    /\ req = [op |-> "load", node |-> 1, freq |-> 5000000, sTime |-> None,
              eTime |-> Some(1), lat |-> None, lon |-> None, call_sign |-> None,
              grape_nodes |-> None]
    /\ pc = "loaded"
    /\ filt = None
    /\ filt_out = None
    /\ butter_calls = 0
    /\ rs_times = <<>>
    /\ err = ""
    /\ ncalls = 0

SpecResample == InitResample /\ [][Construct_Resample]_vars

(***************************************************************************)
(* SpecFilter: a Filter object built and applied by a caller.              *)
(***************************************************************************)
FilterOrders == -1..MaxOrder
FilterCutoffs ==
    {<<Frac(-1, 1)>>, <<Frac(0, 1)>>, <<Frac(1, 60)>>, <<Frac(1, 30)>>,
     <<DefaultTc>>, <<Frac(10, 1)>>, <<DefaultTc, Frac(10, 1)>>,
     <<Frac(10, 1), DefaultTc>>}
BandTypes == {"low", "high", "bandpass", "bandstop"}
FilterRates == {Frac(1, 1), Frac(1, 2)}
FilterInputs == {<<Frac(1, 1)>>, <<Frac(1, 1), Frac(2, 1)>>,
                 <<Frac(0, 1), Frac(0, 1), Frac(5, 2)>>}

Filter_init ==
    /\ pc = "filter_new"
    /\ \E N \in FilterOrders, Tc \in FilterCutoffs, btype \in BandTypes,
          fs \in FilterRates :
          /\ req' = [op |-> "Filter", N |-> N, Tc_min |-> Tc, btype |-> btype, fs |-> fs]
          /\ butter_calls' = butter_calls + 1
          /\ err' = FilterInitError(N, Tc, btype, fs)
          /\ filt' = IF err' = "" THEN Some(FilterObject(N, Tc, btype, fs)) ELSE None
    /\ pc' = IF err' = "" THEN "filter_ready" ELSE "failed"
    /\ UNCHANGED <<files, disk, inv, filt_out, data, meta, dft, rs_times, ncalls>>

Filter_filter_data ==
    /\ pc = "filter_ready"
    /\ ncalls < MaxCalls
    /\ \E col \in FilterInputs :
          /\ req' = [req EXCEPT !.op = "Filter.filter_data"]
          /\ filt_out' = Some(FilterApply(filt[1], col))
    /\ ncalls' = ncalls + 1
    /\ UNCHANGED <<files, disk, inv, filt, butter_calls, data, meta, dft, rs_times,
                   pc, err>>

InitFilter ==
    /\ files = {}
    /\ disk = <<>>
    /\ pc = "filter_new"
    /\ Blank

SpecFilter == InitFilter /\ [][Filter_init \/ Filter_filter_data]_vars

(***************************************************************************)
(* SpecInventory: DataInventory(data_path) on a directory.                 *)
(***************************************************************************)
InvFiles ==
    {FName(<<"0">>, <<"1">>, "EN91", L_WWV5),
     FName(<<"0">>, <<"2">>, "FN20", L_WWV10),
     FName(<<"1">>, <<"2">>, "FN20", L_WWV2p5),
     FName(<<"1">>, <<"3">>, "FN20", L_WWV15),
     FName(<<"2">>, <<"1">>, "EN91", L_CHU3),
     FName(<<"2">>, <<"2">>, "FN20", L_CHU7),
     FName(<<"3">>, <<"1">>, "EN91", L_CHU14),
     FName(<<"3">>, <<"2">>, "FN20", L_Unknown),
     FName(<<"4">>, <<"1">>, "EN91", L_G1),
     FName(<<"4">>, <<"2">>, "FN20", L_WWV5 \o L_G1),
     FName(<<"5">>, <<"1">>, "EN91", L_WWV20),
     FName(<<"5">>, <<"2">>, "FN20", L_5000000),
     FName(<<"1", "0">>, <<"0", "0", "1", "2">>, "EN91", L_WWV10),
     FName(<<"6">>, <<"x">>, "EN91", L_WWV5)}

DataInventory_init ==
    /\ pc = "inventory_new"
    /\ err' = InventoryError(files)
    /\ inv' = IF err' = "" THEN Some(DataInventory(files)) ELSE None
    /\ pc' = IF err' = "" THEN "inventory_ready" ELSE "failed"
    /\ req' = [op |-> "DataInventory"]
    /\ UNCHANGED <<files, disk, filt, filt_out, butter_calls, data, meta, dft,
                   rs_times, ncalls>>

InitInventory ==
    /\ files \in Directories(InvFiles, MaxInvFiles)
    /\ disk = [fn \in files |-> <<>>]
    /\ pc = "inventory_new"
    /\ Blank

SpecInventory == InitInventory /\ [][DataInventory_init]_vars

(***************************************************************************)
(* Properties.  Notions the statements use, defined apart from the model   *)
(* of the code.                                                            *)
(***************************************************************************)
\* the timestamps of the raw stage
RawUTC == Column(data["raw"][1].df, "UTC")

\* a timestamp with its sub-second component removed
WholeSecond(t) == CHOOSE s \in 0..t : s % TicksPerSec = 0 /\ s <= t /\ t < s + TicksPerSec

\* start, start + c, start + 2c, ... up to and not beyond last
GridUpTo(start, last, c) == [i \in 1..((last - start) \div c + 1) |-> start + (i - 1) * c]

\* the constructor's resampling step has run on the raw stage
Resampled == req.op = "resample" /\ req.in = "raw" /\ data["raw"] # None

\* C1: the target times of resample_data are start, start+cadence, ... with
\* start the first raw timestamp truncated to a whole second, each one cadence
\* after the one before, none beyond the last raw timestamp truncated to a
\* whole second.
C1_GridEndsBeforeTruncatedEnd ==
    Resampled =>
        rs_times = GridUpTo(WholeSecond(RawUTC[1]), WholeSecond(RawUTC[Len(RawUTC)]), req.rate)

\* C2: every target time at which resample_data interpolates lies between
\* the first and the last raw timestamp.
C2_TargetsInsideObservedRange ==
    Resampled =>
        \A i \in 1..Len(rs_times) :
            RawUTC[1] <= rs_times[i] /\ rs_times[i] <= RawUTC[Len(RawUTC)]

\* the raw series is uniformly spaced at cadence c
Uniform(utc, c) == \A i \in 1..(Len(utc) - 1) : utc[i + 1] - utc[i] = c

\* the resampled stage holds the rows of the raw stage
SameSeries ==
    /\ err = ""
    /\ data["resampled"] # None
    /\ data["resampled"][1].df = data["raw"][1].df

\* C8 as stated: resampling a series that is uniform at cadence c at cadence
\* c returns the same timestamps and values, whatever its alignment.
C8_IdempotentAnyAlignment ==
    (Resampled /\ Uniform(RawUTC, req.rate)) => SameSeries

\* C8 amended: resampling a series of two or more rows that is uniform at
\* cadence c and whose first and last timestamps are whole seconds, at
\* cadence c, returns the same timestamps and values.
C8_IdempotentWholeSecondEnds ==
    (/\ Resampled
     /\ Uniform(RawUTC, req.rate)
     /\ Len(RawUTC) >= 2
     /\ RawUTC[1] % TicksPerSec = 0
     /\ RawUTC[Len(RawUTC)] % TicksPerSec = 0) => SameSeries

\* a uniform series of three rows at a cadence that is not a whole number of
\* seconds, with whole-second ends, has been resampled at its cadence
C8_Witness ==
    /\ Resampled
    /\ Uniform(RawUTC, req.rate)
    /\ Len(RawUTC) >= 3
    /\ req.rate % TicksPerSec # 0
    /\ RawUTC[1] % TicksPerSec = 0
    /\ RawUTC[Len(RawUTC)] % TicksPerSec = 0
    /\ SameSeries

\* C3: a stage, once stored, is never modified or overwritten, and each stage
\* is first stored from its declared predecessor: raw by the load, resampled
\* by resampling raw, filtered by filtering resampled.
C3_StagesImmutable ==
    [][/\ \A s \in Stages : data[s] # None => data'[s] = data[s]
       /\ (data["raw"] = None /\ data'["raw"] # None) => req'.op = "load"
       /\ (data["resampled"] = None /\ data'["resampled"] # None) =>
              (req'.op = "resample" /\ req'.in = "raw")
       /\ (data["filtered"] = None /\ data'["filtered"] # None) =>
              (req'.op = "filter" /\ req'.in = "resampled")]_vars

\* __load_raw has run on an inventory it could build
LoadAttempted == req.op = "load" /\ inv # None

\* the inventory records with the requested node and frequency
Matching == {r \in inv[1].df : r.Node = req.node /\ r.Frequency = NumCell(req.freq)}

\* those of them inside the requested half-open range, an omitted end of the
\* range leaving that side open
Requested ==
    {r \in Matching : /\ req.sTime # None => r.Datetime >= req.sTime[1]
                      /\ req.eTime # None => r.Datetime < req.eTime[1]}

Selected == {dft[i] : i \in 1..Len(dft)}

\* C4: with start and end both omitted, every inventory record whose node
\* and frequency match the request is selected for loading.
C4_DefaultRangeSelectsAll ==
    (LoadAttempted /\ req.sTime = None /\ req.eTime = None) => Selected = Matching

\* C5: when no inventory record matches the node, frequency and time range,
\* the build fails with NoDataFound and creates no stage; a build for which
\* records match never ends with that error.
C5_NoDataFound ==
    LoadAttempted =>
        /\ Requested = {} => (err = "NoDataFound" /\ data = NoData)
        /\ Requested # {} => err # "NoDataFound"

\* the load has succeeded
Loaded == req.op = "load" /\ pc = "loaded"

RECURSIVE RowsOfFiles(_)
RowsOfFiles(sel) ==
    IF sel = <<>> THEN <<>> ELSE disk[Head(sel).Filename] \o RowsOfFiles(Tail(sel))

\* a file row with the target frequency taken off its Freq once
Deviation(row) ==
    [row EXCEPT !["Freq"] = Frac(row["Freq"].n - req.freq * row["Freq"].d, row["Freq"].d)]

Count(seq, x) == Cardinality({i \in 1..Len(seq) : seq[i] = x})

\* C9: after a successful load the raw stage holds exactly the rows of the
\* selected files, each Freq being the file value minus the target frequency,
\* ordered by UTC non-decreasing.
C9_RawStage ==
    Loaded =>
        LET raw == data["raw"][1].df.rows
            exp == [i \in 1..Len(RowsOfFiles(dft)) |-> Deviation(RowsOfFiles(dft)[i])]
        IN /\ Len(raw) = Len(exp)
           /\ \A i \in 1..Len(exp) : Count(raw, exp[i]) = Count(exp, exp[i])
           /\ \A i \in 1..(Len(raw) - 1) : raw[i]["UTC"] <= raw[i + 1]["UTC"]

\* a load of two files with rows, where the file read second holds a row
\* earlier than one of the file read first and a file holds its rows out of
\* order
C9_Witness ==
    /\ Loaded
    /\ \E i \in 1..Len(dft), j \in 1..Len(dft) :
          /\ i < j
          /\ \E a \in 1..Len(disk[dft[i].Filename]), b \in 1..Len(disk[dft[j].Filename]) :
                disk[dft[j].Filename][b]["UTC"] < disk[dft[i].Filename][a]["UTC"]
    /\ \E i \in 1..Len(dft) :
          \E a \in 1..Len(disk[dft[i].Filename]), b \in 1..Len(disk[dft[i].Filename]) :
             a < b /\ disk[dft[i].Filename][a]["UTC"] > disk[dft[i].Filename][b]["UTC"]
    /\ Len(data["raw"][1].df.rows) >= 4

\* C10: a supplied call_sign, lat or lon is the value in the label and the
\* metadata; a field that was not supplied takes the node list's value.
C10_SuppliedMetadataUsed ==
    Loaded =>
        /\ req.call_sign # None => meta[1].label[3] = req.call_sign[1]
        /\ req.lat # None => meta[1].lat = req.lat
        /\ req.lon # None => meta[1].lon = req.lon
        /\ (req.call_sign = None /\ req.grape_nodes # None) =>
               meta[1].label[3] = req.grape_nodes[1][req.node].Callsign
        /\ (req.lat = None /\ req.grape_nodes # None) =>
               meta[1].lat = Some(req.grape_nodes[1][req.node].Latitude)
        /\ (req.lon = None /\ req.grape_nodes # None) =>
               meta[1].lon = Some(req.grape_nodes[1][req.node].Longitude)

\* Filter(...) has been called
FilterCalled == req.op \in {"Filter", "Filter.filter_data"}

\* the cutoff 1/(60 Tc) Hz of a positive period Tc is at or above fs/2
CutoffAtOrAboveNyquist(tc, fs) == tc.n > 0 /\ 2 * tc.d * fs.d >= 60 * tc.n * fs.n

OutOfRangeSpec ==
    \/ req.N <= 0
    \/ \E i \in 1..Len(req.Tc_min) :
          req.Tc_min[i].n <= 0 \/ CutoffAtOrAboveNyquist(req.Tc_min[i], req.fs)

\* C6: constructing a Filter with order <= 0, a cutoff period <= 0 or a
\* normalized cutoff >= 1 fails with InvalidFilterSpec, before the
\* coefficients are computed and before any series is filtered.
C6_InvalidFilterSpecRejected ==
    (FilterCalled /\ OutOfRangeSpec) =>
        (err = "InvalidFilterSpec" /\ butter_calls = 0 /\ filt_out = None)

\* the documented station frequencies, in Hz
Recognized == {L_WWV5, L_WWV10, L_WWV2p5, L_WWV15, L_CHU3, L_CHU7, L_CHU14}

DocumentedHz(l) ==
    CASE l = L_WWV5 -> 5000000 [] l = L_WWV10 -> 10000000 [] l = L_WWV2p5 -> 2500000
      [] l = L_WWV15 -> 15000000 [] l = L_CHU3 -> 3330000 [] l = L_CHU7 -> 7850000
      [] l = L_CHU14 -> 14670000

\* the frequency label of a file name: its last field without the suffix
LabelOf(fn) == SubSeq(fn[6], 1, Len(fn[6]) - Len(suffix))

RecordsOf(fn) == {r \in inv[1].df : r.Filename = fn}

\* a Frequency cell that is a number, or the text of one
NumericCell(c) == c.kind = "num" \/ IsInt(c.str)

\* C7: every record of a built inventory has a numeric frequency; a file with
\* a recognized label has a record with the documented Hz value, one labelled
\* Unknown a record with 0, and a file whose label is neither recognized,
\* Unknown nor numeric has no record.
C7_FrequenciesNumeric ==
    inv # None =>
        /\ \A r \in inv[1].df : NumericCell(r.Frequency)
        /\ \A fn \in files :
              /\ LabelOf(fn) \in Recognized =>
                     \E r \in RecordsOf(fn) : r.Frequency = NumCell(DocumentedHz(LabelOf(fn)))
              /\ LabelOf(fn) = L_Unknown =>
                     \E r \in RecordsOf(fn) : r.Frequency = NumCell(0)
              /\ (LabelOf(fn) \notin Recognized \cup {L_Unknown} /\ ~IsInt(LabelOf(fn))) =>
                     RecordsOf(fn) = {}

\* the names of the columns a params list holds
ParamSet(P) == {P[k] : k \in 1..Len(P)}

\* out is src with the filter f applied to each column of P by itself and
\* every other column, the timestamps among them, as it is in src
FilteredFrom(src, out, f, P) ==
    /\ ParamSet(P) \subseteq src.cols
    /\ out.cols = src.cols
    /\ Len(out.rows) = Len(src.rows)
    /\ \A c \in src.cols :
          Column(out, c) = IF c \in ParamSet(P)
                           THEN FilterApply(f, Column(src, c)) ELSE Column(src, c)

\* this step is a filter_data call that returned
FilterDataReturned ==
    /\ req'.op = "filter"
    /\ err' = ""
    /\ pc = "derived" \/ ncalls' = ncalls + 1

====
